---- MODULE Spec2Model ----
(***************************************************************************)
(* CwaWeather-backend: the location registry (locations.js) and the        *)
(* weather gateway (server.js).                                            *)
(*                                                                         *)
(* Strings are sequences of symbols.  ASCII text is spelled one character  *)
(* per symbol, so that toLowerCase and trim act on it character by         *)
(* character.  A Chinese character is written as one symbol holding its    *)
(* romanised syllable (gao xiong shi for the three characters of the name  *)
(* of Kaohsiung City), the degree sign as the symbol "deg", and a fixed    *)
(* message of the program as one symbol holding its English gloss.         *)
(*                                                                         *)
(* A JavaScript value is a record [t, v]: t is its type and v its string   *)
(* content (the name of a function, empty for null and undefined).         *)
(***************************************************************************)
EXTENDS Integers, Sequences, FiniteSets, TLC

VARIABLES
  regCode,        \* locations.js: the argument of the registry call
  regName,        \* what getLocationName(regCode) returned
  regValid,       \* what isValidLocation(regCode) returned
  CWA_API_KEY,    \* server.js:17, process.env.CWA_API_KEY
  pc,             \* where the current request is
  route,          \* the route that matched the current request
  params,         \* req.params.location
  query,          \* params.locationName of the axios.get call
  upstreamCalls,  \* axios.get calls issued for the current request
  upstreamData,   \* response.data the upstream call resolved with
  upstreamError,  \* the error the upstream call rejected with
  res,            \* the HTTP response written: status and JSON body
  sent,           \* how many responses were written for the current request
  unhandled       \* the handler's promise rejected and nothing caught it

regVars == <<regCode, regName, regValid>>
srvVars == <<CWA_API_KEY, pc, route, params, query, upstreamCalls,
             upstreamData, upstreamError, res, sent, unhandled>>
vars == <<regCode, regName, regValid, CWA_API_KEY, pc, route, params, query,
          upstreamCalls, upstreamData, upstreamError, res, sent, unhandled>>

----
\* Bounds of the inputs

\* longest run of whitespace put before and after a code
MaxPad == 1

\* most weather elements in an upstream location record
MaxElements == 2

\* most time entries in a weather element
MaxTime == 2

----
\* JavaScript values

Str(s) == [t |-> "string", v |-> s]

Fn(name) == [t |-> "function", v |-> <<name>>]

Obj(name) == [t |-> "object", v |-> <<name>>]

Null == [t |-> "null", v |-> <<>>]

Undefined == [t |-> "undefined", v |-> <<>>]

\* a variable of the model that holds no value of the program yet
NotCalled == [t |-> "notcalled", v |-> <<>>]

\* ToBoolean, as `!x`, `x || y` and `if (x)` apply it
Truthy(x) == ~(x.t \in {"null", "undefined"} \/ (x.t = "string" /\ x.v = <<>>))

\* String(x), as a template literal applies it
ToStr(x) ==
  CASE x.t = "string" -> x.v
    [] x.t = "function" -> <<"function ">> \o x.v \o <<"() { [native code] }">>
    [] x.t = "object" -> <<"[object Object]">>
    [] OTHER -> <<x.t>>

Upper ==
  <<"A", "B", "C", "D", "E", "F", "G", "H", "I", "J", "K", "L", "M",
    "N", "O", "P", "Q", "R", "S", "T", "U", "V", "W", "X", "Y", "Z">>

Lower ==
  <<"a", "b", "c", "d", "e", "f", "g", "h", "i", "j", "k", "l", "m",
    "n", "o", "p", "q", "r", "s", "t", "u", "v", "w", "x", "y", "z">>

\* of the white space String.prototype.trim removes: the space and the tab
Whitespace == {" ", "\t"}

ToLowerChar(c) ==
  IF \E k \in 1..Len(Upper) : Upper[k] = c
  THEN Lower[CHOOSE k \in 1..Len(Upper) : Upper[k] = c]
  ELSE c

\* String.prototype.toLowerCase
toLowerCase(s) == [j \in 1..Len(s) |-> ToLowerChar(s[j])]

RECURSIVE TrimStart(_)
TrimStart(s) ==
  IF s # <<>> /\ Head(s) \in Whitespace THEN TrimStart(Tail(s)) ELSE s

RECURSIVE TrimEnd(_)
TrimEnd(s) ==
  IF s # <<>> /\ s[Len(s)] \in Whitespace
  THEN TrimEnd(SubSeq(s, 1, Len(s) - 1))
  ELSE s

\* String.prototype.trim
trim(s) == TrimEnd(TrimStart(s))

----
\* locations.js

\* the table, in the order of its properties
locations ==
  <<
     [code |-> <<"t", "a", "i", "p", "e", "i">>,
      name |-> <<"tai", "bei", "shi">>],
     [code |-> <<"n", "e", "w", "t", "a", "i", "p", "e", "i">>,
      name |-> <<"xin", "bei", "shi">>],
     [code |-> <<"t", "a", "o", "y", "u", "a", "n">>,
      name |-> <<"tao", "yuan", "shi">>],
     [code |-> <<"h", "s", "i", "n", "c", "h", "u">>,
      name |-> <<"xin", "zhu", "shi">>],
     [code |-> <<"h", "s", "i", "n", "c", "h", "u", "c", "o", "u", "n", "t", "y">>,
      name |-> <<"xin", "zhu", "xian">>],
     [code |-> <<"m", "i", "a", "o", "l", "i">>,
      name |-> <<"miao", "li", "xian">>],
     [code |-> <<"t", "a", "i", "c", "h", "u", "n", "g">>,
      name |-> <<"tai", "zhong", "shi">>],
     [code |-> <<"n", "a", "n", "t", "o", "u">>,
      name |-> <<"nan", "tou", "xian">>],
     [code |-> <<"c", "h", "a", "n", "g", "h", "u", "a">>,
      name |-> <<"zhang", "hua", "xian">>],
     [code |-> <<"y", "u", "n", "l", "i", "n">>,
      name |-> <<"yun", "lin", "xian">>],
     [code |-> <<"c", "h", "i", "a", "y", "i">>,
      name |-> <<"jia", "yi", "shi">>],
     [code |-> <<"c", "h", "i", "a", "y", "i", "_", "c", "o", "u", "n", "t", "y">>,
      name |-> <<"jia", "yi", "xian">>],
     [code |-> <<"t", "a", "i", "n", "a", "n">>,
      name |-> <<"tai", "nan", "shi">>],
     [code |-> <<"k", "a", "o", "h", "s", "i", "u", "n", "g">>,
      name |-> <<"gao", "xiong", "shi">>],
     [code |-> <<"p", "i", "n", "g", "t", "u", "n", "g">>,
      name |-> <<"ping", "dong", "xian">>],
     [code |-> <<"y", "i", "l", "a", "n">>,
      name |-> <<"yi", "lan", "xian">>],
     [code |-> <<"t", "a", "i", "t", "u", "n", "g">>,
      name |-> <<"tai", "dong", "xian">>],
     [code |-> <<"h", "u", "a", "l", "i", "e", "n">>,
      name |-> <<"hua", "lian", "xian">>],
     [code |-> <<"p", "e", "n", "g", "h", "u">>,
      name |-> <<"peng", "hu", "xian">>],
     [code |-> <<"k", "i", "n", "m", "e", "n">>,
      name |-> <<"jin", "men", "xian">>],
     [code |-> <<"l", "i", "e", "n", "c", "h", "i", "a", "n", "g">>,
      name |-> <<"lian", "jiang", "xian">>]
  >>

\* the properties every object literal inherits from Object.prototype
ObjectPrototype ==
  <<
     [code |-> <<"c", "o", "n", "s", "t", "r", "u", "c", "t", "o", "r">>,
      value |-> Fn("Object")],
     [code |-> <<"_", "_", "p", "r", "o", "t", "o", "_", "_">>,
      value |-> Obj("Object.prototype")],
     [code |-> <<"t", "o", "S", "t", "r", "i", "n", "g">>,
      value |-> Fn("toString")],
     [code |-> <<"v", "a", "l", "u", "e", "O", "f">>,
      value |-> Fn("valueOf")],
     [code |-> <<"h", "a", "s", "O", "w", "n", "P", "r", "o", "p", "e", "r", "t", "y">>,
      value |-> Fn("hasOwnProperty")]
  >>

HasOwn(key) == \E k \in 1..Len(locations) : locations[k].code = key

OwnValue(key) ==
  Str(locations[CHOOSE k \in 1..Len(locations) : locations[k].code = key].name)

Inherited(key) == \E k \in 1..Len(ObjectPrototype) : ObjectPrototype[k].code = key

InheritedValue(key) ==
  ObjectPrototype[CHOOSE k \in 1..Len(ObjectPrototype) : ObjectPrototype[k].code = key].value

\* locations[key]: the own property, else the inherited one, else undefined
GetProperty(key) ==
  IF HasOwn(key) THEN OwnValue(key)
  ELSE IF Inherited(key) THEN InheritedValue(key)
  ELSE Undefined

\* the mistake of reading a key without normalising it
normalize_noTrim(s) == toLowerCase(s)

\* code.toLowerCase().trim()
normalize(s) == trim(toLowerCase(s))

getLocationName(code) ==
  IF ~Truthy(code) THEN Null
  ELSE LET normalizedCode == normalize(code.v)
           found == GetProperty(normalizedCode)
       IN IF Truthy(found) THEN found ELSE Null

isValidLocation(code) == getLocationName(code) # Null

\* Object.keys(locations)
getAllLocationCodes == [k \in 1..Len(locations) |-> locations[k].code]

\* { ...locations }: the own properties, copied
getAllLocations == locations

----
\* server.js: values

Digit == <<"1", "2", "3", "4", "5", "6", "7", "8", "9">>

\* response.data of an upstream call that has not resolved
NoData ==
  [present |-> FALSE, hasRecords |-> FALSE, hasLocation |-> FALSE,
   datasetDescription |-> <<>>, location |-> <<>>]

\* error.response of an error that carries none
NoUpstreamResponse ==
  [status |-> 0, data |-> [t |-> "undefined", v |-> <<>>, message |-> Undefined]]

\* a thrown value: status 0 and hasResponse FALSE stand for the properties
\* `status` and `response` being undefined
NoError ==
  [present |-> FALSE, status |-> 0, error |-> Undefined, message |-> Undefined,
   hasResponse |-> FALSE, response |-> NoUpstreamResponse]

NoReport == [city |-> <<>>, updateTime |-> <<>>, forecasts |-> <<>>]

\* a JSON body; a field that is Undefined (total: -1) is not in the body
EmptyBody ==
  [success |-> FALSE, data |-> NoReport, error |-> Undefined,
   message |-> Undefined, details |-> NoUpstreamResponse.data,
   total |-> -1, locations |-> <<>>, codes |-> <<>>]

NoResponse == [status |-> 0, body |-> EmptyBody]

\* what dereferencing undefined or null throws
TypeError ==
  [present |-> TRUE, status |-> 0, error |-> Undefined,
   message |-> Str(<<"TypeError">>),
   hasResponse |-> FALSE, response |-> NoUpstreamResponse]

----
\* server.js: getWeather

\* the mistake of calling upstream without looking at the key
CredentialMissing_unchecked(key) == FALSE

\* !CWA_API_KEY
CredentialMissing(key) == ~Truthy(key)

ConfigurationError ==
  [present |-> TRUE, status |-> 500,
   error |-> Str(<<"server configuration error">>),
   message |-> Str(<<"set CWA_API_KEY in the .env file">>),
   hasResponse |-> FALSE, response |-> NoUpstreamResponse]

\* the mistake of reporting a missing record as a server error
NotFoundError_as500(location) ==
  [present |-> TRUE, status |-> 500,
   error |-> Str(<<"no data">>),
   message |-> Str(<<"cannot get ">> \o ToStr(location) \o <<" weather data">>),
   hasResponse |-> FALSE, response |-> NoUpstreamResponse]

NotFoundError(location) ==
  [present |-> TRUE, status |-> 404,
   error |-> Str(<<"no data">>),
   message |-> Str(<<"cannot get ">> \o ToStr(location) \o <<" weather data">>),
   hasResponse |-> FALSE, response |-> NoUpstreamResponse]

\* the mistake of counting the periods of the last element
timeCount_lastElement(weatherElements) ==
  Len(weatherElements[Len(weatherElements)].time)

\* weatherElements[0].time.length
timeCount(weatherElements) == Len(weatherElements[1].time)

\* the forecast of period i before any element is read
NewForecast(weatherElements, i) ==
  [startTime |-> weatherElements[1].time[i].startTime,
   endTime |-> weatherElements[1].time[i].endTime,
   weather |-> <<>>, rain |-> <<>>, minTemp |-> <<>>, maxTemp |-> <<>>,
   comfort |-> <<>>, windSpeed |-> <<>>]

\* the mistake of routing MinT and MaxT into each other's field
RouteElement_swapped(forecast, element, i) ==
  LET value == element.time[i].parameter
  IN CASE element.elementName = "Wx" ->
            [forecast EXCEPT !.weather = value.parameterName]
       [] element.elementName = "PoP" ->
            [forecast EXCEPT !.rain = value.parameterName \o <<"%">>]
       [] element.elementName = "MinT" ->
            [forecast EXCEPT !.maxTemp = value.parameterName \o <<"deg", "C">>]
       [] element.elementName = "MaxT" ->
            [forecast EXCEPT !.minTemp = value.parameterName \o <<"deg", "C">>]
       [] element.elementName = "CI" ->
            [forecast EXCEPT !.comfort = value.parameterName]
       [] element.elementName = "WS" ->
            [forecast EXCEPT !.windSpeed = value.parameterName]
       [] OTHER -> forecast

\* the switch on element.elementName
RouteElement(forecast, element, i) ==
  LET value == element.time[i].parameter
  IN CASE element.elementName = "Wx" ->
            [forecast EXCEPT !.weather = value.parameterName]
       [] element.elementName = "PoP" ->
            [forecast EXCEPT !.rain = value.parameterName \o <<"%">>]
       [] element.elementName = "MinT" ->
            [forecast EXCEPT !.minTemp = value.parameterName \o <<"deg", "C">>]
       [] element.elementName = "MaxT" ->
            [forecast EXCEPT !.maxTemp = value.parameterName \o <<"deg", "C">>]
       [] element.elementName = "CI" ->
            [forecast EXCEPT !.comfort = value.parameterName]
       [] element.elementName = "WS" ->
            [forecast EXCEPT !.windSpeed = value.parameterName]
       [] OTHER -> forecast

\* weatherElements.forEach, from element k on
RECURSIVE forEachElement(_, _, _, _)
forEachElement(forecast, weatherElements, k, i) ==
  IF k > Len(weatherElements) THEN forecast
  ELSE forEachElement(RouteElement(forecast, weatherElements[k], i),
                      weatherElements, k + 1, i)

\* the loop over the periods
Forecasts(weatherElements) ==
  [i \in 1..timeCount(weatherElements) |->
     forEachElement(NewForecast(weatherElements, i), weatherElements, 1, i)]

\* the reads of getWeather that dereference undefined: records or location
\* missing from the body, no first weather element, or an element with no
\* entry for a period of the first element
Dereferences(data) ==
  \/ ~data.hasRecords
  \/ ~data.hasLocation
  \/ /\ data.location # <<>>
     /\ LET weatherElements == data.location[1].weatherElement
        IN \/ weatherElements = <<>>
           \/ \E k \in 1..Len(weatherElements) :
                Len(weatherElements[k].time) < timeCount(weatherElements)

\* getWeather from the point the upstream call resolved with `data`
getWeatherResolved(location, data) ==
  IF ~data.hasRecords \/ ~data.hasLocation
  THEN [ok |-> FALSE, error |-> TypeError, data |-> NoReport]
  ELSE IF data.location = <<>>
  THEN [ok |-> FALSE, error |-> NotFoundError(location), data |-> NoReport]
  ELSE IF Dereferences(data)
  THEN [ok |-> FALSE, error |-> TypeError, data |-> NoReport]
  ELSE [ok |-> TRUE, error |-> NoError,
        data |-> [city |-> data.location[1].locationName,
                  updateTime |-> data.datasetDescription,
                  forecasts |-> Forecasts(data.location[1].weatherElement)]]

----
\* server.js: handleGetWeather

yilan == <<"y", "i", "l", "a", "n">>

kaohsiung == <<"k", "a", "o", "h", "s", "i", "u", "n", "g">>

\* the name handed to getWeather for the token of the request
ResolveLocation(token) ==
  LET location == IF Truthy(token) THEN token ELSE Str(yilan)
  IN IF isValidLocation(location) THEN getLocationName(location) ELSE location

\* the catch block: the response it writes, or threw when it throws itself
CatchError(error) ==
  IF error.status # 0
  THEN [threw |-> FALSE, status |-> error.status,
        body |-> [EmptyBody EXCEPT !.error = error.error,
                                   !.message = error.message]]
  ELSE IF error.hasResponse
  THEN IF error.response.data.t \in {"null", "undefined"}
       THEN [threw |-> TRUE, status |-> 0, body |-> EmptyBody]
       ELSE [threw |-> FALSE, status |-> error.response.status,
             body |-> [EmptyBody EXCEPT
                         !.error = Str(<<"CWA API error">>),
                         !.message =
                            IF Truthy(error.response.data.message)
                            THEN error.response.data.message
                            ELSE Str(<<"cannot get weather data">>),
                         !.details = error.response.data]]
  ELSE [threw |-> FALSE, status |-> 500,
        body |-> [EmptyBody EXCEPT
                    !.error = Str(<<"server error">>),
                    !.message = Str(<<"cannot get weather data, try again later">>)]]

\* res.json of the try block
SuccessBody(weatherData) ==
  [EmptyBody EXCEPT !.success = TRUE, !.data = weatherData]

\* the error-handling middleware
ErrorMiddlewareBody(err) ==
  [EmptyBody EXCEPT !.error = Str(<<"server error">>), !.message = err.message]

\* res.status(status).json(body), after n responses to this request
Respond(n, status, body) ==
  /\ res' = [status |-> status, body |-> body]
  /\ sent' = n + 1
  /\ unhandled' = FALSE
  /\ pc' = "done"

\* the catch block threw: the promise of handleGetWeather rejects.  The fixed
\* route drops that promise; the parametrized route hands it to Express, which
\* ignores it (Express 4) or passes the error to the error middleware
\* (Express 5)
Rejected(n, err) ==
  \/ /\ res' = NoResponse
     /\ sent' = n
     /\ unhandled' = TRUE
     /\ pc' = "done"
  \/ /\ route' = "/api/weather/:location"
     /\ Respond(n, 500, ErrorMiddlewareBody(err))

\* the handler's exit through its catch block, after n responses
Caught(n, error) ==
  LET out == CatchError(error)
  IN IF out.threw THEN Rejected(n, TypeError)
     ELSE Respond(n, out.status, out.body)

\* a request arrives once the one before it is over: server.js keeps nothing
\* from one request to the next (its module state is constant), so requests
\* in flight together do not touch each other and are followed one at a time
NewRequest(r, token) ==
  /\ pc \in {"idle", "done"}
  /\ route' = r
  /\ params' = token
  /\ upstreamData' = NoData
  /\ upstreamError' = NoError

\* handleGetWeather up to the await of axios.get
HandleGetWeather(r, token) ==
  /\ NewRequest(r, token)
  /\ IF CredentialMissing(CWA_API_KEY)
     THEN /\ query' = Undefined
          /\ upstreamCalls' = 0
          /\ Caught(0, ConfigurationError)
     ELSE /\ query' = ResolveLocation(token)
          /\ upstreamCalls' = 1
          /\ res' = NoResponse
          /\ sent' = 0
          /\ unhandled' = FALSE
          /\ pc' = "awaiting"
  /\ UNCHANGED <<regCode, regName, regValid, CWA_API_KEY>>

----
\* Inputs

SeqsUpTo(S, n) == UNION {[1..k -> S] : k \in 0..n}

ToUpperChar(c) ==
  IF \E k \in 1..Len(Lower) : Lower[k] = c
  THEN Upper[CHOOSE k \in 1..Len(Lower) : Lower[k] = c]
  ELSE c

\* the positions written in upper case: none, all, one, two, all but one
Masks(n) ==
  {{}, 1..n} \cup {{j, k} : j, k \in 1..n} \cup {(1..n) \ {j} : j \in 1..n}

ApplyMask(s, m) ==
  [j \in 1..Len(s) |-> IF j \in m THEN ToUpperChar(s[j]) ELSE s[j]]

\* strings that are no code of the table, however cased and padded
UnknownBases ==
  {<<>>,
   <<"k", "e", "e", "l", "u", "n", "g">>,
   <<"t", "a", "i", "p", "e">>,
   <<"t", "a", "i", " ", "p", "e", "i">>,
   <<"gao", "xiong", "shi">>}
  \cup {ObjectPrototype[k].code : k \in 1..Len(ObjectPrototype)}

Bases == {locations[k].code : k \in 1..Len(locations)} \cup UnknownBases

Pads == SeqsUpTo(Whitespace, MaxPad)

\* x is an argument of the registry: null, undefined, or a base in some
\* case with white space around it
RegistryInput(x) ==
  \/ x \in {Null, Undefined}
  \/ \E base \in Bases, l \in Pads, r \in Pads :
       \E m \in Masks(Len(base)) : x = Str(l \o ApplyMask(base, m) \o r)

\* the :location tokens of the requests
Tokens ==
  {Str(kaohsiung),
   Str(<<" ", "K", "a", "o", "H", "s", "i", "u", "n", "g", "\t">>),
   Str(<<"gao", "xiong", "shi">>),
   Str(<<"k", "e", "e", "l", "u", "n", "g">>),
   Str(ObjectPrototype[1].code),
   Str(ObjectPrototype[2].code)}

Keys == {Undefined, Str(<<>>), Str(<<"C", "W", "A", "-", "K", "E", "Y">>)}

ElementNames == {"Wx", "PoP", "MinT", "MaxT", "CI", "WS", "UVI"}

\* the element at position p of a record, with n time entries; every entry
\* of a record has its own times and its own value
Element(name, p, n) ==
  [elementName |-> name,
   time |-> [i \in 1..n |->
               [startTime |-> <<"start", Digit[p], Digit[i]>>,
                endTime |-> <<"end", Digit[p], Digit[i]>>,
                parameter |-> [parameterName |-> <<Digit[p], Digit[i]>>]]]]

DatasetDescription == <<"36", "hour", "forecast">>

\* data is response.data of a resolved upstream call: a body without records,
\* records without a location list, an empty location list, or one record
UpstreamBody(data) ==
  \/ data = [NoData EXCEPT !.present = TRUE]
  \/ data = [NoData EXCEPT !.present = TRUE, !.hasRecords = TRUE]
  \/ data = [NoData EXCEPT !.present = TRUE, !.hasRecords = TRUE,
                           !.hasLocation = TRUE,
                           !.datasetDescription = DatasetDescription]
  \/ \E k \in 0..MaxElements :
       \E names \in [1..k -> ElementNames], counts \in [1..k -> 0..MaxTime] :
         data = [present |-> TRUE, hasRecords |-> TRUE, hasLocation |-> TRUE,
                 datasetDescription |-> DatasetDescription,
                 location |->
                   <<[locationName |-> <<"gao", "xiong", "shi">>,
                      weatherElement |->
                        [p \in 1..k |-> Element(names[p], p, counts[p])]]>>]

\* error.response.data: a JSON object with or without a message, a text
\* body, the JSON value null
Payloads ==
  {[t |-> "object", v |-> <<"{message}">>, message |-> Str(<<"upstream message">>)],
   [t |-> "object", v |-> <<"{}">>, message |-> Undefined],
   [t |-> "string", v |-> <<"<html>">>, message |-> Undefined],
   [t |-> "null", v |-> <<>>, message |-> Undefined]}

\* the errors axios.get rejects with: an HTTP error response (its status is
\* also error.status in the axios releases that set it), or no response
UpstreamErrors ==
  {[present |-> TRUE, status |-> IF hasStatus THEN code ELSE 0,
    error |-> Undefined,
    message |-> Str(<<"Request failed with status code">>),
    hasResponse |-> TRUE, response |-> [status |-> code, data |-> d]] :
     code \in {401, 404, 500}, hasStatus \in BOOLEAN, d \in Payloads}
  \cup
  {[present |-> TRUE, status |-> 0, error |-> Undefined,
    message |-> Str(<<"Network Error">>),
    hasResponse |-> FALSE, response |-> NoUpstreamResponse]}

----
\* Operations of the registry, applied to one drawn argument

RegistryIdle ==
  /\ regCode = Undefined
  /\ regName = NotCalled
  /\ regValid = NotCalled

ServerIdle ==
  /\ pc = "idle"
  /\ route = "none"
  /\ params = Undefined
  /\ query = Undefined
  /\ upstreamCalls = 0
  /\ upstreamData = NoData
  /\ upstreamError = NoError
  /\ res = NoResponse
  /\ sent = 0
  /\ unhandled = FALSE

CallGetLocationName ==
  /\ regName = NotCalled
  /\ regName' = getLocationName(regCode)
  /\ UNCHANGED <<regCode, regValid>>
  /\ UNCHANGED srvVars

CallIsValidLocation ==
  /\ regValid = NotCalled
  /\ regValid' = [t |-> "boolean",
                  v |-> IF isValidLocation(regCode) THEN <<"true">> ELSE <<"false">>]
  /\ UNCHANGED <<regCode, regName>>
  /\ UNCHANGED srvVars

InitRegistry ==
  /\ RegistryInput(regCode)
  /\ regName = NotCalled
  /\ regValid = NotCalled
  /\ CWA_API_KEY = Undefined
  /\ ServerIdle

NextRegistry == CallGetLocationName \/ CallIsValidLocation

SpecRegistry == InitRegistry /\ [][NextRegistry]_vars

----
\* Operations of the server

\* GET /api/weather/kaohsiung
GetWeatherKaohsiung == HandleGetWeather("/api/weather/kaohsiung", Str(kaohsiung))

\* GET /api/weather/:location
GetWeatherLocation ==
  \E token \in Tokens : HandleGetWeather("/api/weather/:location", token)

\* GET /api/locations
GetLocations ==
  /\ NewRequest("/api/locations", Undefined)
  /\ query' = Undefined
  /\ upstreamCalls' = 0
  /\ Respond(0, 200, [EmptyBody EXCEPT !.total = Len(getAllLocationCodes),
                                        !.locations = getAllLocations,
                                        !.codes = getAllLocationCodes])
  /\ UNCHANGED <<regCode, regName, regValid, CWA_API_KEY>>

\* axios.get resolves: the rest of getWeather and of the handler
UpstreamResolves ==
  /\ pc = "awaiting"
  /\ UpstreamBody(upstreamData')
  /\ UNCHANGED <<route, params, query, upstreamCalls, upstreamError>>
  /\ LET result == getWeatherResolved(query, upstreamData')
     IN IF result.ok
        THEN Respond(sent, 200, SuccessBody(result.data))
        ELSE Caught(sent, result.error)
  /\ UNCHANGED <<regCode, regName, regValid, CWA_API_KEY>>

\* axios.get rejects: the handler's catch block
UpstreamRejects ==
  /\ pc = "awaiting"
  /\ \E error \in UpstreamErrors :
       /\ upstreamError' = error
       /\ UNCHANGED <<route, params, query, upstreamCalls, upstreamData>>
       /\ Caught(sent, error)
  /\ UNCHANGED <<regCode, regName, regValid, CWA_API_KEY>>

Init ==
  /\ RegistryIdle
  /\ CWA_API_KEY \in Keys
  /\ ServerIdle

Next ==
  \/ GetWeatherKaohsiung
  \/ GetWeatherLocation
  \/ GetLocations
  \/ UpstreamResolves
  \/ UpstreamRejects

Spec == Init /\ [][Next]_vars

----
\* Properties

WeatherRoutes == {"/api/weather/kaohsiung", "/api/weather/:location"}

False == [t |-> "boolean", v |-> <<"false">>]

SameLetter(a, b) == a = b \/ \E k \in 1..Len(Upper) : Upper[k] = a /\ Lower[k] = b

\* s spells the code `key`: its letters in any case, white space around them
Names(s, key) ==
  \E l \in 0..Len(s) :
    /\ l + Len(key) <= Len(s)
    /\ \A j \in 1..l : s[j] \in Whitespace
    /\ \A j \in 1..Len(key) : SameLetter(s[l + j], key[j])
    /\ \A j \in (l + Len(key) + 1)..Len(s) : s[j] \in Whitespace

Registered(x) ==
  x.t = "string" /\ \E k \in 1..Len(locations) : Names(x.v, locations[k].code)

\* the weather request ended with a report
Succeeded == route \in WeatherRoutes /\ pc = "done" /\ res.body.success

\* the weather elements of the record the upstream call resolved with
Elements == upstreamData.location[1].weatherElement

\* the field of period i that the elements named `name` decide: empty with
\* no such element, else the value of the last of them with the suffix
Routed(name, suffix, i) ==
  LET at == {k \in 1..Len(Elements) : Elements[k].elementName = name}
  IN IF at = {} THEN <<>>
     ELSE LET last == CHOOSE k \in at : \A j \in at : j <= k
          IN Elements[last].time[i].parameter.parameterName \o suffix

\* C1: for every argument that is no registered code after lowercasing and
\* trimming (the empty string, null and the names of inherited properties
\* included), getLocationName returns null and isValidLocation returns false.
C1_UnknownCodeIsAbsent ==
  ~Registered(regCode) =>
    /\ regName # NotCalled => regName = Null
    /\ regValid # NotCalled => regValid = False

\* C2: GET /api/locations answers a total equal to the number of entries of
\* the table, and that number is 22.
C2_TotalIsTwentyTwo ==
  (route = "/api/locations" /\ pc = "done") =>
    /\ res.body.total = Len(locations)
    /\ res.body.total = 22

\* C3: the number of forecast entries of a report equals the number of time
\* entries of the record's "Wx" element (the one element of that name),
\* wherever that element stands in the record.
C3_ForecastCountIsWxCount ==
  Succeeded =>
    \A k \in 1..Len(Elements) :
      (/\ Elements[k].elementName = "Wx"
       /\ \A j \in 1..Len(Elements) : Elements[j].elementName = "Wx" => j = k)
      => Len(res.body.data.forecasts) = Len(Elements[k].time)

\* C3, amended: the number of forecast entries of a report equals the number
\* of time entries of the record's first weather element; it equals the
\* number of time entries of a "Wx" element that stands first or has as many
\* entries as the first element.
C3_ForecastCountIsFirstElementCount ==
  Succeeded =>
    /\ Len(res.body.data.forecasts) = Len(Elements[1].time)
    /\ \A k \in 1..Len(Elements) :
         (/\ Elements[k].elementName = "Wx"
          /\ (k = 1 \/ Len(Elements[k].time) = Len(Elements[1].time)))
         => Len(res.body.data.forecasts) = Len(Elements[k].time)

\* C3, witness: a report built from a record whose "Wx" element stands second
\* and has more time entries than the first element.
C3_Witness ==
  /\ Succeeded
  /\ Len(Elements) >= 2
  /\ Elements[2].elementName = "Wx"
  /\ Len(Elements[2].time) > Len(Elements[1].time)
  /\ Len(Elements[1].time) >= 1

\* C4: every failure of a weather request ends in exactly one HTTP error
\* response written by the handler; none escapes as an unhandled rejection
\* or leaves the request unanswered.
C4_EveryFailureAnswered ==
  (route \in WeatherRoutes /\ pc = "done" /\ ~res.body.success) =>
    /\ sent = 1
    /\ ~unhandled
    /\ res.status >= 400

\* C5: with no CWA_API_KEY configured, every weather request fails with the
\* configuration error (status 500, the fixed message) and no upstream call
\* is issued.
C5_NoKeyNoUpstreamCall ==
  ~Truthy(CWA_API_KEY) =>
    /\ upstreamCalls = 0
    /\ pc # "awaiting"
    /\ (route \in WeatherRoutes /\ pc = "done") =>
         /\ sent = 1
         /\ res.status = 500
         /\ res.body.error = Str(<<"server configuration error">>)
         /\ res.body.message = Str(<<"set CWA_API_KEY in the .env file">>)

\* C5, witness: a weather request answered while no key is configured.
C5_Witness ==
  /\ CWA_API_KEY = Undefined
  /\ route = "/api/weather/:location"
  /\ pc = "done"
  /\ res.status = 500

\* C6: an upstream failure with an HTTP error response is answered with the
\* upstream's status code and the upstream payload as details, whatever else
\* the error carries.
C6_UpstreamErrorSurfaced ==
  (pc = "done" /\ upstreamError.hasResponse) =>
    /\ sent = 1
    /\ res.status = upstreamError.response.status
    /\ res.body.details = upstreamError.response.data

\* C7: an upstream response with an empty location list fails with the
\* not-found error, whose message carries the requested location name, and
\* the request is answered with HTTP 404.
C7_EmptyLocationListIs404 ==
  (/\ pc = "done"
   /\ upstreamData.present
   /\ upstreamData.hasRecords
   /\ upstreamData.hasLocation
   /\ upstreamData.location = <<>>) =>
    /\ sent = 1
    /\ ~unhandled
    /\ res.status = 404
    /\ res.body.error = Str(<<"no data">>)
    /\ res.body.message =
         Str(<<"cannot get ">> \o ToStr(query) \o <<" weather data">>)

\* C7, witness: the request for kaohsiung answered after an empty location
\* list.
C7_Witness ==
  /\ pc = "done"
  /\ upstreamData.present
  /\ upstreamData.hasLocation
  /\ upstreamData.location = <<>>
  /\ query = Str(<<"gao", "xiong", "shi">>)
  /\ res.status = 404

\* C8: the name passed to the upstream query is the registry's name when the
\* token is a known code and the token itself otherwise.
C8_QueryIsNameOrToken ==
  upstreamCalls = 1 =>
    \/ /\ Registered(params)
       /\ \E k \in 1..Len(locations) :
            /\ Names(params.v, locations[k].code)
            /\ query = Str(locations[k].name)
    \/ /\ ~Registered(params)
       /\ query = params

\* C9: in every period of a report each field holds the value its element
\* has at that period (Wx, CI and WS verbatim, PoP with "%", MinT and MaxT
\* with the degree suffix, the last element of a name deciding), an element
\* of another name changes no field, and a field with no element is empty.
C9_ElementsRoutedToFields ==
  Succeeded =>
    \A i \in 1..Len(res.body.data.forecasts) :
      LET forecast == res.body.data.forecasts[i]
      IN /\ forecast.weather = Routed("Wx", <<>>, i)
         /\ forecast.rain = Routed("PoP", <<"%">>, i)
         /\ forecast.minTemp = Routed("MinT", <<"deg", "C">>, i)
         /\ forecast.maxTemp = Routed("MaxT", <<"deg", "C">>, i)
         /\ forecast.comfort = Routed("CI", <<>>, i)
         /\ forecast.windSpeed = Routed("WS", <<>>, i)

\* C9, witness: a report of two periods from a record with a MinT element
\* and an element of an unknown name.
C9_Witness ==
  /\ Succeeded
  /\ Len(res.body.data.forecasts) = 2
  /\ Len(Elements) = 2
  /\ Elements[1].elementName = "MinT"
  /\ Elements[2].elementName = "UVI"
  /\ res.body.data.forecasts[2].minTemp = <<"1", "2", "deg", "C">>
  /\ res.body.data.forecasts[2].weather = <<>>

\* C10: for every registered code, getLocationName returns the code's name
\* for the code in any case and with white space before and after it.
C10_CaseAndPaddingIgnored ==
  (regCode.t = "string" /\ regName # NotCalled) =>
    \A k \in 1..Len(locations) :
      Names(regCode.v, locations[k].code) =>
        /\ regName = Str(locations[k].name)
        /\ regName = getLocationName(Str(locations[k].code))

\* C10, witness: " TaiPei " resolved to the name of Taipei.
C10_Witness ==
  /\ regCode = Str(<<" ", "T", "a", "i", "P", "e", "i", " ">>)
  /\ regName = Str(<<"tai", "bei", "shi">>)

====
